---- MODULE Spec2Model ----
(***************************************************************************)
(* Model of dblike.py: DBSchema (dict of tables), _DBTable (dict of rows   *)
(* plus lazily built secondary indexes), _DBRow (dict of cells) and        *)
(* _DBValue (one opaque value).                                            *)
(*                                                                         *)
(* Python values are tagged records; a Python tuple that the module builds *)
(* itself (a primary key, an index key, a normalised column spec) is a     *)
(* TLA+ sequence of such records.  _DBRow defines neither __eq__ nor       *)
(* __hash__, so Python compares rows by identity; the rows stored in one   *)
(* table have pairwise distinct primary keys, hence pairwise distinct      *)
(* contents, so for stored rows identity and content coincide and a row is *)
(* modelled by its content.                                                *)
(***************************************************************************)
EXTENDS Integers, Sequences, FiniteSets, TLC

VARIABLES
    _tables,    \* DBSchema._tables: table name -> _DBTable
    ret,        \* the last call made on the schema and what it returned or raised
    threads     \* the calls in progress when two threads share the schema

vars == <<_tables, ret, threads>>

-----------------------------------------------------------------------------
(* Python values *)

PyNone == [t |-> "NoneType", i |-> 0, s |-> <<>>, e |-> <<>>]
PyInt(n) == [t |-> "int", i |-> n, s |-> <<>>, e |-> <<>>]
\* a str is the sequence of its characters
PyStr(cs) == [t |-> "str", i |-> 0, s |-> cs, e |-> <<>>]
PyTuple(es) == [t |-> "tuple", i |-> 0, s |-> <<>>, e |-> es]
PyList(es) == [t |-> "list", i |-> 0, s |-> <<>>, e |-> es]

\* characters str.split() treats as separators
Whitespace == {" "}

\* bool(value): None, 0, '' and empty containers are falsy
bool(v) ==
    CASE v.t = "NoneType" -> FALSE
      [] v.t = "int" -> v.i # 0
      [] v.t = "str" -> v.s # <<>>
      [] OTHER -> v.e # <<>>

\* what a call gives back: a returned value or a raised exception
Return(v) == [exc |-> "", val |-> v]
Raise(name, payload) == [exc |-> name, val |-> payload]
Returned(r) == r.exc = ""

-----------------------------------------------------------------------------
(* _tupleize *)

RECURSIVE SplitAcc(_, _, _)
SplitAcc(cs, cur, out) ==
    IF cs = <<>>
    THEN IF cur = <<>> THEN out ELSE Append(out, PyStr(cur))
    ELSE IF Head(cs) \in Whitespace
         THEN SplitAcc(Tail(cs), <<>>,
                       IF cur = <<>> THEN out ELSE Append(out, PyStr(cur)))
         ELSE SplitAcc(Tail(cs), Append(cur, Head(cs)), out)

\* str.split(): the maximal runs of non-whitespace characters
split(str) == SplitAcc(str.s, <<>>, <<>>)

\* the items of an iterable, as tuple(x) and list(x) enumerate them:
\* the characters of a str, the elements of a tuple or list
Items(x) ==
    IF x.t = "str" THEN [j \in 1..Len(x.s) |-> PyStr(<<x.s[j]>>)] ELSE x.e

_tupleize(str_or_list) ==
    IF str_or_list.t = "str" THEN split(str_or_list) ELSE Items(str_or_list)

-----------------------------------------------------------------------------
(* dict helpers *)

\* the empty dict
EmptyDict == <<>>

\* d[k] = v
DictSet(d, k, v) == [x \in (DOMAIN d) \cup {k} |-> IF x = k THEN v ELSE d[x]]

\* d.values()
DictValues(d) == {d[x] : x \in DOMAIN d}

-----------------------------------------------------------------------------
(* _DBValue and _DBRow *)

_DBValue(value) == [_value |-> value]

\* value_dict: column name (a str) -> value; every value is wrapped in a cell
_DBRow(pk, value_dict) ==
    [_pk |-> pk,
     _columns |-> [name \in DOMAIN value_dict |-> _DBValue(value_dict[name])]]

\* mutant of column_values: a repeated name is echoed once only
column_values_once(self, column_names) ==
    LET names == _tupleize(column_names)
        firsts == SelectSeq([j \in 1..Len(names) |-> <<j, names[j]>>],
                            LAMBDA p : \A l \in 1..(p[1] - 1) :
                                           names[l] # p[2])
    IN  IF \E j \in 1..Len(names) : names[j] \notin DOMAIN self._columns
        THEN Raise("KeyError", <<>>)
        ELSE Return([j \in 1..Len(firsts) |->
                        self._columns[firsts[j][2]]._value])

\* the plain values of the named columns, in the order of the names;
\* self._columns[name] raises KeyError for a column the row does not have
column_values(self, column_names) ==
    LET names == _tupleize(column_names)
    IN  IF \E j \in 1..Len(names) : names[j] \notin DOMAIN self._columns
        THEN Raise("KeyError", <<>>)
        ELSE Return([j \in 1..Len(names) |-> self._columns[names[j]]._value])

\* mutant of _pk_value: the key is taken from the first primary-key column
_pk_value_first(self) ==
    column_values(self, PyTuple(<<_tupleize(self._pk)[1]>>))

_pk_value(self) == column_values(self, self._pk)

-----------------------------------------------------------------------------
(* _DBTable *)

_DBTable(pk) == [_pk |-> pk, _rows |-> EmptyDict, _indexes |-> EmptyDict]

\* mutant of _index_clear_all: the cached indexes survive
_index_clear_all_keeps(self) == self

_index_clear_all(self) == [self EXCEPT !._indexes = EmptyDict]

\* mutant of _index_exists: an index on the same columns in any order counts
_index_exists_any_order(self, column_names) ==
    \E names \in DOMAIN self._indexes :
        {names[j] : j \in 1..Len(names)} =
            {_tupleize(column_names)[j] :
                j \in 1..Len(_tupleize(column_names))}

_index_exists(self, column_names) ==
    _tupleize(column_names) \in DOMAIN self._indexes

\* mutant of _index_create: a bucket is assigned the row instead of being
\* added to, so it keeps one row only
_index_create_one_row(self, column_names) ==
    LET names == _tupleize(column_names)
        rows == DictValues(self._rows)
        idx_key(row) == column_values(row, PyTuple(names))
    IN  IF \E row \in rows : ~Returned(idx_key(row))
        THEN [out |-> Raise("KeyError", <<>>), self |-> self]
        ELSE LET new_index ==
                     [key \in {idx_key(row).val : row \in rows} |->
                          {CHOOSE row \in rows : idx_key(row).val = key}]
             IN  [out |-> Return(PyNone),
                  self |-> [self EXCEPT
                               !._indexes = DictSet(@, names, new_index)]]

\* group every row by its value tuple under column_names; the cache entry
\* is assigned last, so a KeyError of some row leaves the table as it was
_index_create(self, column_names) ==
    LET names == _tupleize(column_names)
        rows == DictValues(self._rows)
        idx_key(row) == column_values(row, PyTuple(names))
    IN  IF \E row \in rows : ~Returned(idx_key(row))
        THEN [out |-> Raise("KeyError", <<>>), self |-> self]
        ELSE LET new_index ==
                     [key \in {idx_key(row).val : row \in rows} |->
                          {row \in rows : idx_key(row).val = key}]
             IN  [out |-> Return(PyNone),
                  self |-> [self EXCEPT
                               !._indexes = DictSet(@, names, new_index)]]

\* mutant of _index_find_rows: a missing index is answered like a missing
\* bucket
_index_find_rows_lenient(self, column_names, column_values_) ==
    LET names == _tupleize(column_names)
        values == _tupleize(column_values_)
    IN  IF names \notin DOMAIN self._indexes
        THEN Return({})
        ELSE LET index == self._indexes[names]
             IN  IF values \in DOMAIN index
                 THEN Return(index[values])
                 ELSE Return({})

_index_find_rows(self, column_names, column_values_) ==
    LET names == _tupleize(column_names)
        values == _tupleize(column_values_)
    IN  IF names \notin DOMAIN self._indexes
        THEN Raise("AssertionError", <<>>)
        ELSE LET index == self._indexes[names]
             IN  IF values \in DOMAIN index
                 THEN Return(index[values])
                 ELSE Return({})

\* mutant of _walking_find_rows: the values are compared pairwise up to the
\* shorter of the two lists, as all(a == b for a, b in zip(...)) would
_walking_find_rows_zip(self, column_names, column_values_) ==
    LET rows == DictValues(self._rows)
        Shorter(a, b) == IF Len(a) <= Len(b) THEN Len(a) ELSE Len(b)
    IN  IF \E row \in rows : ~Returned(column_values(row, column_names))
        THEN Raise("KeyError", <<>>)
        ELSE Return({row \in rows :
                        LET mine == column_values(row, column_names).val
                            asked == Items(column_values_)
                        IN  \A j \in 1..Shorter(mine, asked) :
                                mine[j] = asked[j]})

\* list(row.column_values(column_names)) == list(column_values):
\* the value spec is enumerated as it is, it is not passed to _tupleize
_walking_find_rows(self, column_names, column_values_) ==
    LET rows == DictValues(self._rows)
    IN  IF \E row \in rows : ~Returned(column_values(row, column_names))
        THEN Raise("KeyError", <<>>)
        ELSE Return({row \in rows :
                        column_values(row, column_names).val
                            = Items(column_values_)})

\* mutant of find_rows: the test of skip_index is inverted
find_rows_inverted(self, column_names, column_values_, skip_index) ==
    IF skip_index
    THEN LET created ==
                 IF ~_index_exists(self, column_names)
                 THEN _index_create(self, column_names)
                 ELSE [out |-> Return(PyNone), self |-> self]
         IN  IF ~Returned(created.out)
             THEN created
             ELSE [out |-> _index_find_rows(created.self, column_names,
                                            column_values_),
                   self |-> created.self]
    ELSE [out |-> _walking_find_rows(self, column_names, column_values_),
          self |-> self]

find_rows(self, column_names, column_values_, skip_index) ==
    IF ~skip_index
    THEN LET created ==
                 IF ~_index_exists(self, column_names)
                 THEN _index_create(self, column_names)
                 ELSE [out |-> Return(PyNone), self |-> self]
         IN  IF ~Returned(created.out)
             THEN created
             ELSE [out |-> _index_find_rows(created.self, column_names,
                                            column_values_),
                   self |-> created.self]
    ELSE [out |-> _walking_find_rows(self, column_names, column_values_),
          self |-> self]

\* mutant of add_row: a duplicate key silently replaces the stored row
add_row_overwrites(self, value_dict) ==
    LET cleared == _index_clear_all(self)
        new_row == _DBRow(self._pk, value_dict)
        new_pk == _pk_value(new_row)
    IN  IF ~Returned(new_pk)
        THEN [out |-> new_pk, self |-> cleared]
        ELSE [out |-> Return(PyNone),
              self |-> [cleared EXCEPT
                           !._rows = DictSet(@, new_pk.val, new_row)]]

\* mutant of add_row: the indexes are cleared when the row is inserted
add_row_clears_late(self, value_dict) ==
    LET new_row == _DBRow(self._pk, value_dict)
        new_pk == _pk_value(new_row)
    IN  IF ~Returned(new_pk)
        THEN [out |-> new_pk, self |-> self]
        ELSE IF new_pk.val \in DOMAIN self._rows
             THEN [out |-> Raise("DuplicateRowException",
                                 [existing_row |-> self._rows[new_pk.val],
                                  new_row |-> new_row]),
                   self |-> self]
             ELSE [out |-> Return(PyNone),
                   self |-> [_index_clear_all(self) EXCEPT
                                !._rows = DictSet(@, new_pk.val, new_row)]]

\* the indexes are cleared first, so they stay cleared when the row is
\* rejected (KeyError of a missing primary-key column, or duplicate key)
add_row(self, value_dict) ==
    LET cleared == _index_clear_all(self)
        new_row == _DBRow(self._pk, value_dict)
        new_pk == _pk_value(new_row)
    IN  IF ~Returned(new_pk)
        THEN [out |-> new_pk, self |-> cleared]
        ELSE IF new_pk.val \in DOMAIN cleared._rows
             THEN [out |-> Raise("DuplicateRowException",
                                 [existing_row |-> cleared._rows[new_pk.val],
                                  new_row |-> new_row]),
                   self |-> cleared]
             ELSE [out |-> Return(PyNone),
                   self |-> [cleared EXCEPT
                                !._rows = DictSet(@, new_pk.val, new_row)]]

\* mutant of RowKey: every row id is wrapped, a tuple too
RowKey_wraps_tuples(id) == <<id>>

\* the key a row id stands for: a non-tuple is wrapped in a one-tuple
RowKey(id) == IF id.t # "tuple" THEN <<id>> ELSE id.e

__getitem__(self, id) ==
    IF id.t = "tuple" /\ Len(id.e) = 1
    THEN Raise("AssertionError", <<>>)
    ELSE IF RowKey(id) \in DOMAIN self._rows
         THEN Return(self._rows[RowKey(id)])
         ELSE Raise("KeyError", <<>>)

__contains__(self, id) == RowKey(id) \in DOMAIN self._rows

\* the (row id, row) pairs the generator yields: a one-tuple key is
\* presented as its only element, any other key as the tuple
iteritems(self) ==
    {<<IF Len(k) = 1 THEN k[1] ELSE PyTuple(k), self._rows[k]>> :
        k \in DOMAIN self._rows}

values(self) == DictValues(self._rows)

-----------------------------------------------------------------------------
(* operations that go through the schema *)

\* DBSchema.__contains__
schema_contains(schema, table_name) == table_name \in DOMAIN schema

\* DBSchema.__getitem__ and __getattr__: self._tables[table_name]
schema_getitem(schema, table_name) ==
    IF table_name \in DOMAIN schema
    THEN Return(schema[table_name])
    ELSE Raise("KeyError", <<>>)

\* mutant of deref: the value is looked up without the assertion
deref_unasserted(schema, self, table_name) ==
    IF ~schema_contains(schema, table_name)
    THEN Raise("KeyError", <<>>)
    ELSE __getitem__(schema[table_name], self._value)

\* _DBValue.deref: assert self.value, then schema[table_name][self.value]
deref(schema, self, table_name) ==
    IF ~bool(self._value)
    THEN Raise("AssertionError", <<>>)
    ELSE IF ~schema_contains(schema, table_name)
         THEN Raise("KeyError", <<>>)
         ELSE __getitem__(schema[table_name], self._value)

\* mutant of find_refs: a table that is not declared is created on demand
find_refs_creates_table(schema, self, table_name, column_names) ==
    LET names == _tupleize(column_names)
        grown == IF schema_contains(schema, table_name)
                 THEN schema
                 ELSE DictSet(schema, table_name, _DBTable(self._pk))
    IN  IF ~Returned(_pk_value(self))
        THEN [out |-> _pk_value(self), schema |-> grown]
        ELSE LET found == find_rows(grown[table_name], PyTuple(names),
                                    PyTuple(_pk_value(self).val), FALSE)
             IN  [out |-> found.out,
                  schema |-> [grown EXCEPT ![table_name] = found.self]]

\* mutant of find_refs: the rows are matched against the row's own values
\* under column_names instead of its primary key
find_refs_own_columns(schema, self, table_name, column_names) ==
    LET names == _tupleize(column_names)
    IN  IF ~schema_contains(schema, table_name)
        THEN [out |-> Raise("KeyError", <<>>), schema |-> schema]
        ELSE IF ~Returned(column_values(self, PyTuple(names)))
             THEN [out |-> Raise("KeyError", <<>>), schema |-> schema]
             ELSE LET found ==
                          find_rows(schema[table_name], PyTuple(names),
                                    PyTuple(column_values(
                                        self, PyTuple(names)).val), FALSE)
                  IN  [out |-> found.out,
                       schema |-> [schema EXCEPT ![table_name] = found.self]]

\* _DBRow.find_refs: the named table is asked for the rows whose value
\* tuple under column_names is this row's primary key (indexed find_rows)
find_refs(schema, self, table_name, column_names) ==
    LET names == _tupleize(column_names)
    IN  IF ~schema_contains(schema, table_name)
        THEN [out |-> Raise("KeyError", <<>>), schema |-> schema]
        ELSE IF ~Returned(_pk_value(self))
             THEN [out |-> _pk_value(self), schema |-> schema]
             ELSE LET found == find_rows(schema[table_name], PyTuple(names),
                                         PyTuple(_pk_value(self).val), FALSE)
                  IN  [out |-> found.out,
                       schema |-> [schema EXCEPT ![table_name] = found.self]]

\* DBSchema.__init__: one empty table per TableDef, a later definition of
\* a name replacing an earlier one
DBSchema(schema_def) ==
    [name \in {schema_def[j].name : j \in 1..Len(schema_def)} |->
        LET last == CHOOSE j \in 1..Len(schema_def) :
                        /\ schema_def[j].name = name
                        /\ \A l \in (j+1)..Len(schema_def) :
                               schema_def[l].name # name
        IN  _DBTable(schema_def[last].pk)]

TableDef(name, pk) == [name |-> name, pk |-> pk]

-----------------------------------------------------------------------------
(* the schema and the inputs of the calls *)

\* at most this many rows are stored in the schema
MaxRows == 2

K == PyStr(<<"k">>)
V == PyStr(<<"v">>)
Pair11 == PyTuple(<<PyInt(1), PyInt(1)>>)
AB == PyStr(<<"a", "b">>)

\* owners has the single-column key 'k', items the composite key [k, v]
TheSchemaDef ==
    <<TableDef("owners", K), TableDef("items", PyList(<<K, V>>))>>

TableNames == {"owners", "items"}
\* the names a caller passes: the declared ones and an undeclared one
TableNameArgs == TableNames \cup {"nosuch"}

ColumnNames == {K, V}

\* the values a loader stores in a column of a table
ColumnDomain(table, name) ==
    CASE table = "owners" /\ name = K -> {PyInt(0), PyInt(1), Pair11}
      [] table = "owners" /\ name = V -> {PyInt(1), AB}
      [] table = "items" /\ name = K -> {PyInt(1)}
      [] OTHER -> {PyInt(1), AB}

AllValues ==
    UNION {ColumnDomain(t, c) : t \in TableNames, c \in ColumnNames}

\* the value_dict arguments of add_row: any subset of the columns
ValueDicts(table) ==
    UNION {{vd \in [cols -> AllValues] :
               \A c \in cols : vd[c] \in ColumnDomain(table, c)} :
           cols \in SUBSET ColumnNames}

\* column specs, as a whitespace-delimited str and as a sequence
ColSpecs ==
    {V, PyList(<<V>>), PyStr(<<"k", " ", "v">>), PyTuple(<<V, K>>)}

\* the column specs column_values is called with: the ones above, and
\* specs that name a column more than once
RowColSpecs ==
    ColSpecs \cup {PyStr(<<"v", " ", "v">>), PyList(<<V, K, V>>)}

\* value specs, as a str and as a sequence
ValSpecs ==
    {AB, PyList(<<AB>>), PyTuple(<<PyInt(1)>>), PyList(<<PyInt(1), PyInt(1)>>)}

\* row ids: bare scalars, a one-tuple, longer tuples
RowIds ==
    {PyInt(0), PyInt(1), PyTuple(<<PyInt(1)>>), Pair11,
     PyTuple(<<PyInt(1), AB>>)}

\* the values of free-standing cells
CellValues ==
    {PyNone, PyInt(0), PyStr(<<>>), PyInt(1), Pair11}

TotalRows(schema) ==
    Cardinality({<<t, k>> \in TableNames \X
                     UNION {DOMAIN schema[t]._rows : t \in TableNames} :
                        k \in DOMAIN schema[t]._rows})

Call(op, table, args, out) ==
    [op |-> op, table |-> table, args |-> args, out |-> out]

-----------------------------------------------------------------------------
(* the state machine: one action per call.  The module is single-threaded *)
(* and synchronous: a call runs to its return or raise (recorded in ret)   *)
(* before the caller goes on to its next call.                             *)

\* the caller holds no result
NoCall == Call("", "", <<>>, Return(PyNone))

\* a thread that is in no call
IdleThread == [pc |-> "idle", table |-> "", args |-> <<>>, out |-> Return(PyNone)]

\* the single caller of the tests: no second thread, no call in progress
NoThreads ==
    [discipline |-> "single", writer |-> IdleThread, reader |-> IdleThread]

Init ==
    /\ _tables = DBSchema(TheSchemaDef)
    /\ ret = NoCall
    /\ threads = NoThreads

AddRow ==
    /\ ret.op = ""
    /\ \E t \in TableNames :
         \E vd \in ValueDicts(t) :
           LET r == add_row(_tables[t], vd)
               after == [_tables EXCEPT ![t] = r.self]
           IN  /\ TotalRows(after) <= MaxRows
               /\ _tables' = after
               /\ ret' = Call("add_row", t, <<vd>>, r.out)
    /\ UNCHANGED threads

FindRows ==
    /\ ret.op = ""
    /\ \E t \in TableNames, cn \in ColSpecs, cv \in ValSpecs,
          skip_index \in BOOLEAN :
           LET r == find_rows(_tables[t], cn, cv, skip_index)
           IN  /\ _tables' = [_tables EXCEPT ![t] = r.self]
               /\ ret' = Call("find_rows", t, <<cn, cv, skip_index>>, r.out)
    /\ UNCHANGED threads

IndexCreate ==
    /\ ret.op = ""
    /\ \E t \in TableNames, cn \in ColSpecs :
           LET r == _index_create(_tables[t], cn)
           IN  /\ _tables' = [_tables EXCEPT ![t] = r.self]
               /\ ret' = Call("_index_create", t, <<cn>>, r.out)
    /\ UNCHANGED threads

IndexFindRows ==
    /\ ret.op = ""
    /\ \E t \in TableNames, cn \in ColSpecs, cv \in ValSpecs :
           ret' = Call("_index_find_rows", t, <<cn, cv>>,
                       _index_find_rows(_tables[t], cn, cv))
    /\ UNCHANGED _tables
    /\ UNCHANGED threads

IndexExists ==
    /\ ret.op = ""
    /\ \E t \in TableNames, cn \in ColSpecs :
           ret' = Call("_index_exists", t, <<cn>>,
                       Return(_index_exists(_tables[t], cn)))
    /\ UNCHANGED _tables
    /\ UNCHANGED threads

IndexClearAll ==
    /\ ret.op = ""
    /\ \E t \in TableNames :
           /\ _tables' = [_tables EXCEPT ![t] = _index_clear_all(@)]
           /\ ret' = Call("_index_clear_all", t, <<>>, Return(PyNone))
    /\ UNCHANGED threads

GetItem ==
    /\ ret.op = ""
    /\ \E t \in TableNames, id \in RowIds :
           ret' = Call("__getitem__", t, <<id>>, __getitem__(_tables[t], id))
    /\ UNCHANGED _tables
    /\ UNCHANGED threads

Contains ==
    /\ ret.op = ""
    /\ \E t \in TableNames, id \in RowIds :
           ret' = Call("__contains__", t, <<id>>,
                       Return(__contains__(_tables[t], id)))
    /\ UNCHANGED _tables
    /\ UNCHANGED threads

IterItems ==
    /\ ret.op = ""
    /\ \E t \in TableNames :
           ret' = Call("iteritems", t, <<>>, Return(iteritems(_tables[t])))
    /\ UNCHANGED _tables
    /\ UNCHANGED threads

Values ==
    /\ ret.op = ""
    /\ \E t \in TableNames :
           ret' = Call("values", t, <<>>, Return(values(_tables[t])))
    /\ UNCHANGED _tables
    /\ UNCHANGED threads

ColumnValues ==
    /\ ret.op = ""
    /\ \E t \in TableNames, cn \in RowColSpecs :
         \E row \in values(_tables[t]) :
           ret' = Call("column_values", t, <<row, cn>>,
                       column_values(row, cn))
    /\ UNCHANGED _tables
    /\ UNCHANGED threads

SchemaContains ==
    /\ ret.op = ""
    /\ \E name \in TableNameArgs :
           ret' = Call("DBSchema.__contains__", name, <<>>,
                       Return(schema_contains(_tables, name)))
    /\ UNCHANGED _tables
    /\ UNCHANGED threads

SchemaGetItem ==
    /\ ret.op = ""
    /\ \E name \in TableNameArgs :
           ret' = Call("DBSchema.__getitem__", name, <<>>,
                       schema_getitem(_tables, name))
    /\ UNCHANGED _tables
    /\ UNCHANGED threads

\* the cells stored in the rows of the schema
StoredCells ==
    UNION {DictValues(row._columns) :
              row \in UNION {values(_tables[t]) : t \in TableNames}}

\* deref of a cell of a stored row, or of a free-standing cell
Deref ==
    /\ ret.op = ""
    /\ \E target \in TableNameArgs :
         \E cell \in {_DBValue(v) : v \in CellValues} \cup StoredCells :
           ret' = Call("deref", target, <<cell>>,
                       deref(_tables, cell, target))
    /\ UNCHANGED _tables
    /\ UNCHANGED threads

FindRefs ==
    /\ ret.op = ""
    /\ \E t \in TableNames, target \in TableNameArgs, cn \in ColSpecs :
         \E row \in values(_tables[t]) :
           LET r == find_refs(_tables, row, target, cn)
           IN  /\ _tables' = r.schema
               /\ ret' = Call("find_refs", target, <<row, cn>>, r.out)
    /\ UNCHANGED threads

\* the caller drops the result of its last call and goes on
Continue ==
    /\ ret.op # ""
    /\ ret' = NoCall
    /\ UNCHANGED _tables
    /\ UNCHANGED threads

Next ==
    \/ AddRow
    \/ FindRows
    \/ IndexCreate
    \/ IndexFindRows
    \/ IndexExists
    \/ IndexClearAll
    \/ GetItem
    \/ Contains
    \/ IterItems
    \/ Values
    \/ ColumnValues
    \/ SchemaContains
    \/ SchemaGetItem
    \/ Deref
    \/ FindRefs
    \/ Continue

Spec == Init /\ [][Next]_vars

-----------------------------------------------------------------------------
(* Two threads on one schema: a writer that calls add_row and a reader that *)
(* calls find_rows with indexing enabled.  A step is one statement of the   *)
(* method; the statements of the two calls interleave as the discipline of  *)
(* the host allows.                                                         *)

\* what the host does about add_row: nothing ("none"); it runs the
\* statements of add_row as one indivisible block ("atomic"); it gives
\* add_row exclusive access, so that no other call is in progress while
\* add_row runs ("exclusive")
Disciplines == {"none", "atomic", "exclusive"}

\* add_row has run its first statement and not its last
WriterBusy == threads.writer.pc \in {"row", "check", "insert"}

\* find_rows has run its first statement and not its last
ReaderBusy == threads.reader.pc \in {"build", "lookup"}

ReaderMayStep == threads.discipline = "none" \/ ~WriterBusy

WriterMayStart == threads.discipline # "exclusive" \/ ~ReaderBusy

\* the table the two threads share, and what they call it with
ThreadTable == "owners"

ThreadValueDicts ==
    {K :> PyInt(0) @@ V :> PyInt(1),
     K :> PyInt(1) @@ V :> PyInt(1),
     K :> PyInt(1) @@ V :> AB,
     K :> Pair11,
     V :> PyInt(1)}

ThreadColSpecs == {V, PyStr(<<"k", " ", "v">>)}

ThreadValSpecs == {PyTuple(<<PyInt(1)>>), PyList(<<PyInt(1), PyInt(1)>>)}

InitThreads ==
    /\ _tables = DBSchema(TheSchemaDef)
    /\ ret = NoCall
    /\ threads \in {[discipline |-> d, writer |-> IdleThread,
                      reader |-> IdleThread] : d \in Disciplines}

\* add_row, first statement: self._index_clear_all()
WriterClear ==
    /\ threads.writer.pc = "idle"
    /\ WriterMayStart
    /\ \E t \in {ThreadTable} :
         \E vd \in ThreadValueDicts :
           /\ TotalRows([_tables EXCEPT ![t] = add_row(@, vd).self]) <= MaxRows
           /\ _tables' = [_tables EXCEPT ![t] = _index_clear_all(@)]
           /\ threads' = [threads EXCEPT !.writer =
                              [pc |-> "row", table |-> t, args |-> <<vd>>,
                               out |-> Return(PyNone)]]
    /\ UNCHANGED ret

\* the primary key of the row the writer is adding
WriterKey ==
    _pk_value(_DBRow(_tables[threads.writer.table]._pk, threads.writer.args[1]))

\* add_row: new_row = _DBRow(...); new_pk = new_row._pk_value
WriterRow ==
    /\ threads.writer.pc = "row"
    /\ threads' = IF Returned(WriterKey)
                  THEN [threads EXCEPT !.writer.pc = "check"]
                  ELSE [threads EXCEPT !.writer.pc = "done",
                                       !.writer.out = WriterKey]
    /\ UNCHANGED <<_tables, ret>>

\* add_row: if new_pk in self._rows: raise DuplicateRowException
WriterCheck ==
    /\ threads.writer.pc = "check"
    /\ LET self == _tables[threads.writer.table]
       IN  threads' =
               IF WriterKey.val \in DOMAIN self._rows
               THEN [threads EXCEPT
                        !.writer.pc = "done",
                        !.writer.out =
                            Raise("DuplicateRowException",
                                  [existing_row |-> self._rows[WriterKey.val],
                                   new_row |-> _DBRow(self._pk,
                                                      threads.writer.args[1])])]
               ELSE [threads EXCEPT !.writer.pc = "insert"]
    /\ UNCHANGED <<_tables, ret>>

\* add_row, last statement: self._rows[new_pk] = new_row
WriterInsert ==
    /\ threads.writer.pc = "insert"
    /\ _tables' = [_tables EXCEPT ![threads.writer.table]._rows =
                      DictSet(@, WriterKey.val,
                              _DBRow(_tables[threads.writer.table]._pk,
                                     threads.writer.args[1]))]
    /\ threads' = [threads EXCEPT !.writer.pc = "done"]
    /\ UNCHANGED ret

\* the writer drops the outcome of its call and goes on
WriterReturn ==
    /\ threads.writer.pc = "done"
    /\ threads' = [threads EXCEPT !.writer = IdleThread]
    /\ UNCHANGED <<_tables, ret>>

\* find_rows, skip_index false: if not self._index_exists(column_names)
ReaderExists ==
    /\ threads.reader.pc = "idle"
    /\ ReaderMayStep
    /\ \E t \in {ThreadTable}, cn \in ThreadColSpecs, cv \in ThreadValSpecs :
         threads' = [threads EXCEPT !.reader =
                        [pc |-> IF _index_exists(_tables[t], cn)
                                THEN "lookup" ELSE "build",
                         table |-> t, args |-> <<cn, cv>>,
                         out |-> Return(PyNone)]]
    /\ UNCHANGED <<_tables, ret>>

\* find_rows: self._index_create(column_names)
ReaderBuild ==
    /\ threads.reader.pc = "build"
    /\ ReaderMayStep
    /\ LET t == threads.reader.table
           created == _index_create(_tables[t], threads.reader.args[1])
       IN  /\ _tables' = [_tables EXCEPT ![t] = created.self]
           /\ threads' = IF Returned(created.out)
                         THEN [threads EXCEPT !.reader.pc = "lookup"]
                         ELSE [threads EXCEPT !.reader.pc = "done",
                                              !.reader.out = created.out]
    /\ UNCHANGED ret

\* find_rows: return self._index_find_rows(column_names, column_values)
ReaderLookup ==
    /\ threads.reader.pc = "lookup"
    /\ ReaderMayStep
    /\ threads' = [threads EXCEPT
                      !.reader.pc = "done",
                      !.reader.out =
                          _index_find_rows(_tables[threads.reader.table],
                                           threads.reader.args[1],
                                           threads.reader.args[2])]
    /\ UNCHANGED <<_tables, ret>>

\* the reader drops the outcome of its call and goes on
ReaderReturn ==
    /\ threads.reader.pc = "done"
    /\ ReaderMayStep
    /\ threads' = [threads EXCEPT !.reader = IdleThread]
    /\ UNCHANGED <<_tables, ret>>

NextThreads ==
    \/ WriterClear
    \/ WriterRow
    \/ WriterCheck
    \/ WriterInsert
    \/ WriterReturn
    \/ ReaderExists
    \/ ReaderBuild
    \/ ReaderLookup
    \/ ReaderReturn

SpecThreads == InitThreads /\ [][NextThreads]_vars

-----------------------------------------------------------------------------
(* what the claims speak of *)

\* two outcomes agree: both raise the same exception or return the same value
SameOutcome(r1, r2) == r1.exc = r2.exc /\ (r1.exc = "" => r1.val = r2.val)

\* every stored row of the table has every column of the spec
HasColumns(self, column_names) ==
    \A row \in DictValues(self._rows) :
        \A j \in 1..Len(_tupleize(column_names)) :
            _tupleize(column_names)[j] \in DOMAIN row._columns

\* the stored rows whose values under the names are, position by position,
\* the given values
MatchingRows(self, names, vals) ==
    {row \in DictValues(self._rows) :
        /\ Len(names) = Len(vals)
        /\ \A j \in 1..Len(names) :
               /\ names[j] \in DOMAIN row._columns
               /\ row._columns[names[j]]._value = vals[j]}

\* the last call was op, made on table
Called(op) == ret.op = op

-----------------------------------------------------------------------------
(* C1..C4: find_rows and add_row *)

\* C1: an indexed find_rows returns what the scanning find_rows returns for
\* the same column spec and value spec, whatever form the specs have.
C1_IndexedEqualsScan ==
    Called("find_rows") /\ ~ret.args[3] =>
        SameOutcome(ret.out,
                    _walking_find_rows(_tables[ret.table],
                                       ret.args[1], ret.args[2]))

\* C2: an indexed find_rows is never stale: it returns exactly the rows now
\* stored whose value tuple under the column spec is the value spec (both
\* normalised), and raises KeyError exactly when a stored row lacks a column.
C2_IndexedFindRowsFresh ==
    Called("find_rows") /\ ~ret.args[3] =>
        IF HasColumns(_tables[ret.table], ret.args[1])
        THEN /\ Returned(ret.out)
             /\ ret.out.val = MatchingRows(_tables[ret.table],
                                           _tupleize(ret.args[1]),
                                           _tupleize(ret.args[2]))
        ELSE ret.out.exc = "KeyError"

\* an indexed find_rows returned two rows, found by a str column spec
C2_Witness ==
    /\ Called("find_rows") /\ ~ret.args[3]
    /\ Returned(ret.out)
    /\ Cardinality(ret.out.val) = 2
    /\ ret.args[1].t = "str"

\* the primary key add_row computes for a value_dict
NewKey(self, value_dict) == _pk_value(_DBRow(self._pk, value_dict))

\* the step is an add_row whose value_dict gives a key that is taken
DuplicateAddRow ==
    /\ ret.op = "" /\ ret'.op = "add_row"
    /\ Returned(NewKey(_tables[ret'.table], ret'.args[1]))
    /\ NewKey(_tables[ret'.table], ret'.args[1]).val
           \in DOMAIN _tables[ret'.table]._rows

\* C3: add_row with a key that is taken raises DuplicateRowException, which
\* carries the stored row and the rejected row, and the row map is as before.
C3_DuplicateRejected ==
    [][DuplicateAddRow =>
        LET self == _tables[ret'.table]
            value_dict == ret'.args[1]
        IN  /\ ret'.out.exc = "DuplicateRowException"
            /\ ret'.out.val.existing_row =
                   self._rows[NewKey(self, value_dict).val]
            /\ ret'.out.val.new_row = _DBRow(self._pk, value_dict)
            /\ \A u \in TableNames : _tables'[u]._rows = _tables[u]._rows]_vars

\* a row was rejected whose contents differ from the stored row's, which
\* is still the one stored under the key
C3_Witness ==
    /\ Called("add_row")
    /\ ret.out.exc = "DuplicateRowException"
    /\ ret.out.val.existing_row # ret.out.val.new_row
    /\ ret.out.val.existing_row \in values(_tables[ret.table])
    /\ ret.out.val.new_row \notin values(_tables[ret.table])

\* the step is an add_row that raised
FailedAddRow == ret.op = "" /\ ret'.op = "add_row" /\ ~Returned(ret'.out)

\* C4 as claimed: a failed add_row leaves the row map and the index cache
\* of the table as they were.
C4_FailedAddRowChangesNothing ==
    [][FailedAddRow => _tables' = _tables]_vars

\* C4 as amended: a failed add_row leaves every row map and the other
\* tables as they were, and leaves the index cache of its table empty.
C4_FailedAddRowKeepsRows ==
    [][FailedAddRow =>
        /\ \A u \in TableNames : _tables'[u]._rows = _tables[u]._rows
        /\ \A u \in TableNames \ {ret'.table} : _tables'[u] = _tables[u]
        /\ _tables'[ret'.table]._indexes = EmptyDict]_vars

\* an add_row failed on a table that holds a row, for a missing key column,
\* while the other table keeps a cached index
C4_Witness ==
    /\ Called("add_row")
    /\ ret.out.exc = "KeyError"
    /\ _tables[ret.table]._rows # EmptyDict
    /\ \E u \in TableNames \ {ret.table} : _tables[u]._indexes # EmptyDict

-----------------------------------------------------------------------------
(* C5, C6, C9: row ids *)

\* what get returns for the primary-key value a stored row derives
GetByPkValue(self, row) == __getitem__(self, PyTuple(_pk_value(row).val))

\* C5 as claimed: get with the primary-key value of a stored row returns
\* that row, in the single-column and in the composite table.
C5_GetPkValueReturnsRow ==
    \A t \in TableNames : \A row \in values(_tables[t]) :
        /\ Returned(GetByPkValue(_tables[t], row))
        /\ GetByPkValue(_tables[t], row).val = row

\* C5 as amended: get with the primary-key value of a stored row returns
\* that row when the key has two or more columns, and is rejected by the
\* one-tuple assertion when the key has one column.
C5_GetPkValueComposite ==
    \A t \in TableNames : \A row \in values(_tables[t]) :
        IF Len(_pk_value(row).val) = 1
        THEN GetByPkValue(_tables[t], row).exc = "AssertionError"
        ELSE /\ Returned(GetByPkValue(_tables[t], row))
             /\ GetByPkValue(_tables[t], row).val = row

\* get was called with the primary-key value of a row stored in the
\* composite table beside another row, and returned that row, while the
\* single-column table holds a row too
C5_Witness ==
    /\ Called("__getitem__") /\ ret.table = "items"
    /\ Returned(ret.out)
    /\ ret.out.val \in values(_tables["items"])
    /\ ret.args[1] = PyTuple(_pk_value(ret.out.val).val)
    /\ _tables["owners"]._rows # EmptyDict

\* C6: iteration yields one entry per stored row, the row id being the bare
\* value of a one-column key and the tuple otherwise, and every yielded row
\* id gets its row back from get and is contained.
C6_IterItemsRoundTrip ==
    Called("iteritems") =>
        LET self == _tables[ret.table]
        IN  /\ Cardinality(ret.out.val) = Cardinality(DOMAIN self._rows)
            /\ \A entry \in ret.out.val :
                   /\ entry[2] \in values(self)
                   /\ entry[1] = IF Len(_tupleize(self._pk)) = 1
                                 THEN _pk_value(entry[2]).val[1]
                                 ELSE PyTuple(_pk_value(entry[2]).val)
                   /\ Returned(__getitem__(self, entry[1]))
                   /\ __getitem__(self, entry[1]).val = entry[2]
                   /\ __contains__(self, entry[1])

\* C9: contains(rowId) is true exactly when get(rowId) returns a row.
C9_ContainsAgreesWithGet ==
    Called("__contains__") =>
        (ret.out.val <=> Returned(__getitem__(_tables[ret.table], ret.args[1])))

-----------------------------------------------------------------------------
(* C7, C8: deref and find_refs *)

\* C7: deref of a cell with a falsy value fails the assertion, whatever
\* the named table is and holds.
C7_DerefFalsyFails ==
    Called("deref") /\ ~bool(ret.args[1]._value) =>
        ret.out.exc = "AssertionError"

\* a falsy cell was dereferenced against a table that holds a row whose
\* primary key is that value
C7_Witness ==
    /\ Called("deref") /\ ~bool(ret.args[1]._value)
    /\ ret.table \in TableNames
    /\ <<ret.args[1]._value>> \in DOMAIN _tables[ret.table]._rows

\* C8: find_refs on a declared table returns exactly the rows now stored
\* there whose value tuple under the spec is the calling row's primary key
\* (KeyError exactly when a stored row of the table lacks a column).
C8_FindRefsExact ==
    Called("find_refs") /\ ret.table \in TableNames =>
        IF HasColumns(_tables[ret.table], ret.args[2])
        THEN /\ Returned(ret.out)
             /\ ret.out.val = MatchingRows(_tables[ret.table],
                                           _tupleize(ret.args[2]),
                                           _pk_value(ret.args[1]).val)
        ELSE ret.out.exc = "KeyError"

\* find_refs found a row of the other table that refers to the calling row
C8_Witness ==
    /\ Called("find_refs") /\ ret.table \in TableNames
    /\ Returned(ret.out)
    /\ ret.out.val # {}
    /\ ret.args[1] \notin values(_tables[ret.table])

-----------------------------------------------------------------------------
(* C10: specs of different lengths *)

\* the last call was find_rows with specs that normalise to tuples of
\* different lengths
MismatchedFindRows ==
    /\ Called("find_rows")
    /\ Len(_tupleize(ret.args[1])) # Len(_tupleize(ret.args[2]))

-----------------------------------------------------------------------------
(* C11: column_values *)

\* the names a column spec stands for, written out spec by spec
SpecNames(cn) ==
    CASE cn = V -> <<V>>
      [] cn = PyList(<<V>>) -> <<V>>
      [] cn = PyStr(<<"k", " ", "v">>) -> <<K, V>>
      [] cn = PyTuple(<<V, K>>) -> <<V, K>>
      [] cn = PyStr(<<"v", " ", "v">>) -> <<V, V>>
      [] cn = PyList(<<V, K, V>>) -> <<V, K, V>>
      [] cn = PyList(<<K, V>>) -> <<K, V>>
      [] cn = PyStr(<<"v", " ", "k">>) -> <<V, K>>

\* C11: column_values(spec) of a row that has the named columns returns one
\* plain value per name of the spec, in the order of the spec, a repeated
\* name being echoed once per occurrence; a str spec gives what the
\* sequence of its names gives.  (KeyError when the row lacks a column.)
C11_ColumnValuesInOrder ==
    Called("column_values") =>
        LET row == ret.args[1]
            names == SpecNames(ret.args[2])
        IN  IF \A j \in 1..Len(names) : names[j] \in DOMAIN row._columns
            THEN /\ Returned(ret.out)
                 /\ Len(ret.out.val) = Len(names)
                 /\ \A j \in 1..Len(names) :
                        ret.out.val[j] = row._columns[names[j]]._value
                 /\ SameOutcome(ret.out, column_values(row, PyList(names)))
            ELSE ret.out.exc = "KeyError"

\* column_values was called with a str spec that repeats a name
C11_Witness ==
    /\ Called("column_values")
    /\ ret.args[2] = PyStr(<<"v", " ", "v">>)
    /\ Returned(ret.out)
    /\ ret.out.val = <<AB, AB>>

-----------------------------------------------------------------------------
(* C12: the tables of the schema *)

\* the names the schema definition declares
Declared == {TheSchemaDef[j].name : j \in 1..Len(TheSchemaDef)}

\* C12: the tables of the schema are the declared ones in every state;
\* schema contains(name) returns, and is true exactly for a declared name;
\* looking an undeclared name up raises KeyError.
C12_TablesAreTheDeclared ==
    /\ DOMAIN _tables = Declared
    /\ Called("DBSchema.__contains__") =>
           Returned(ret.out) /\ (ret.out.val <=> ret.table \in Declared)
    /\ Called("DBSchema.__getitem__") =>
           IF ret.table \in Declared
           THEN Returned(ret.out) /\ ret.out.val = _tables[ret.table]
           ELSE ret.out.exc = "KeyError"

\* an undeclared table was looked up, in a schema whose tables hold rows
C12_Witness ==
    /\ Called("DBSchema.__getitem__")
    /\ ret.table \notin Declared
    /\ ret.out.exc = "KeyError"
    /\ \A t \in TableNames : _tables[t]._rows # EmptyDict

-----------------------------------------------------------------------------
(* C13..C17: the index cache *)

\* the step is a call of op
Calls(op) == ret.op = "" /\ ret'.op = op

\* C13: after every add_row call, whether it inserted the row or raised,
\* the table has no cached index at all.
C13_AddRowClearsIndexes ==
    [][Calls("add_row") => _tables'[ret'.table]._indexes = EmptyDict]_vars

\* add_row raised for a duplicate key and its table has no index, while
\* the other table holds a row and keeps its index
C13_Witness ==
    /\ Called("add_row")
    /\ ret.out.exc = "DuplicateRowException"
    /\ _tables[ret.table]._indexes = EmptyDict
    /\ \E u \in TableNames \ {ret.table} :
           /\ _tables[u]._rows # EmptyDict
           /\ _tables[u]._indexes # EmptyDict

\* C14: every cached index maps each of its value tuples to exactly the
\* rows now stored whose value tuple under the spec is that tuple; no
\* bucket is empty and every stored row is in exactly one bucket.
C14_IndexesCoherent ==
    \A t \in TableNames :
        LET self == _tables[t]
        IN  \A names \in DOMAIN self._indexes :
                LET index == self._indexes[names]
                IN  /\ \A key \in DOMAIN index :
                           /\ index[key] # {}
                           /\ index[key] = MatchingRows(self, names, key)
                    /\ \A row \in values(self) :
                           Cardinality({key \in DOMAIN index :
                                           row \in index[key]}) = 1

\* a table has an index with a bucket of two rows and another index with
\* two buckets
C14_Witness ==
    \E t \in TableNames :
        /\ \E names \in DOMAIN _tables[t]._indexes :
               \E key \in DOMAIN _tables[t]._indexes[names] :
                   Cardinality(_tables[t]._indexes[names][key]) = 2
        /\ \E names \in DOMAIN _tables[t]._indexes :
               Cardinality(DOMAIN _tables[t]._indexes[names]) = 2

ReadOps == {"__getitem__", "__contains__", "iteritems", "values",
            "column_values"}

\* C15: get, contains, iteration, column_values and a scanning find_rows
\* change no table; an indexed find_rows changes no row map and no other
\* table, keeps every cached index, and adds at most the index of its own
\* column spec, when that one was absent.
C15_ReadsChangeLittle ==
    [][/\ ret.op = "" /\ ret'.op \in ReadOps => _tables' = _tables
       /\ Calls("find_rows") /\ ret'.args[3] => _tables' = _tables
       /\ Calls("find_rows") /\ ~ret'.args[3] =>
              LET t == ret'.table
                  names == SpecNames(ret'.args[1])
                  cache == _tables[t]._indexes
                  cache_ == _tables'[t]._indexes
              IN  /\ \A u \in TableNames \ {t} : _tables'[u] = _tables[u]
                  /\ _tables'[t]._rows = _tables[t]._rows
                  /\ DOMAIN cache \subseteq DOMAIN cache_
                  /\ DOMAIN cache_ \subseteq DOMAIN cache \cup {names}
                  /\ \A n \in DOMAIN cache : cache_[n] = cache[n]]_vars

\* an indexed find_rows returned rows of a table that has two indexes
C15_Witness ==
    /\ Called("find_rows") /\ ~ret.args[3]
    /\ Returned(ret.out) /\ ret.out.val # {}
    /\ Cardinality(DOMAIN _tables[ret.table]._indexes) = 2

\* C16: _index_find_rows changes nothing; it raises (AssertionError) when
\* the cache has no entry for the column spec and returns the empty set
\* when the entry has no bucket for the value spec; an indexed find_rows
\* never raises that error.  (Every step of Next changes ret.op, so the
\* subscript lets through the stuttering steps only.)
C16_MissingIndexIsLoud ==
    [][/\ Calls("_index_find_rows") =>
              LET cache == _tables[ret'.table]._indexes
                  names == SpecNames(ret'.args[1])
              IN  /\ _tables' = _tables
                  /\ IF names \notin DOMAIN cache
                     THEN ret'.out.exc = "AssertionError"
                     ELSE /\ Returned(ret'.out)
                          /\ _tupleize(ret'.args[2]) \notin DOMAIN cache[names]
                                 => ret'.out.val = {}
       /\ Calls("find_rows") => ret'.out.exc # "AssertionError"]_<<_tables, ret.op>>

\* _index_find_rows raised on a table that holds a row and has an index
\* for another column spec
C16_Witness ==
    /\ Called("_index_find_rows")
    /\ ret.out.exc = "AssertionError"
    /\ _tables[ret.table]._rows # EmptyDict
    /\ _tables[ret.table]._indexes # EmptyDict

\* forms of column specs: each ordered spec as a str and as a sequence
SpecForms ==
    ColSpecs \cup {PyList(<<K, V>>), PyStr(<<"v", " ", "k">>)}

\* C17: after _index_create(spec) an index exists for exactly the forms of
\* the same ordered names and the specs that had one before; the entries
\* of the other specs are as they were.
C17_IndexIdentity ==
    [][Calls("_index_create") /\ Returned(ret'.out) =>
          LET t == ret'.table
              names == SpecNames(ret'.args[1])
              cache == _tables[t]._indexes
              cache_ == _tables'[t]._indexes
          IN  /\ \A f \in SpecForms :
                     _index_exists(_tables'[t], f) <=>
                         \/ SpecNames(f) = names
                         \/ _index_exists(_tables[t], f)
              /\ DOMAIN cache_ = DOMAIN cache \cup {names}
              /\ \A n \in DOMAIN cache \ {names} : cache_[n] = cache[n]]_vars

\* an index on (k, v) was built on a table with rows that has none on (v, k)
C17_Witness ==
    /\ Called("_index_create") /\ Returned(ret.out)
    /\ ret.args[1] = PyStr(<<"k", " ", "v">>)
    /\ _tables[ret.table]._rows # EmptyDict
    /\ _index_exists(_tables[ret.table], PyList(<<K, V>>))
    /\ ~_index_exists(_tables[ret.table], PyTuple(<<V, K>>))

-----------------------------------------------------------------------------
(* C18: deref and find_refs as inverses *)

\* C18: whenever the cell of column c of a row r stored in table S
\* dereferences against table T to a row o, o.find_refs(S, c) returns a
\* set that contains r.
C18_FindRefsInvertsDeref ==
    \A S \in TableNames, T \in TableNames :
        \A r \in values(_tables[S]) :
            \A c \in DOMAIN r._columns :
                LET o == deref(_tables, r._columns[c], T)
                IN  Returned(o) =>
                        LET refs == find_refs(_tables, o.val, S, c).out
                        IN  Returned(refs) /\ r \in refs.val

-----------------------------------------------------------------------------
(* C19, C20: the row map *)

\* the step is an add_row on table t that inserted its row
Inserted(t) == Calls("add_row") /\ ret'.table = t /\ Returned(ret'.out)

\* C19: every key of a row map stays mapped to the same row with the same
\* column values in every step; the number of rows of a table grows by one
\* in a successful add_row on it and does not change in any other step.
C19_RowsArePermanent ==
    [][\A t \in TableNames :
          LET rows == _tables[t]._rows
              rows_ == _tables'[t]._rows
          IN  /\ \A key \in DOMAIN rows :
                     key \in DOMAIN rows_ /\ rows_[key] = rows[key]
              /\ Cardinality(DOMAIN rows_) =
                     Cardinality(DOMAIN rows) + IF Inserted(t) THEN 1 ELSE 0
      ]_vars

\* add_row inserted a second row into a table, next to another stored row
\* that has the same value in column v
C19_Witness ==
    /\ Called("add_row") /\ Returned(ret.out)
    /\ Cardinality(DOMAIN _tables[ret.table]._rows) = 2
    /\ \E row \in values(_tables[ret.table]) :
           /\ row._columns # (_DBRow(row._pk, ret.args[1]))._columns
           /\ V \in DOMAIN row._columns /\ V \in DOMAIN ret.args[1]
           /\ row._columns[V]._value = ret.args[1][V]

\* the primary-key columns of the declared tables, written out
PkNames(t) == IF t = "owners" THEN <<K>> ELSE <<K, V>>

\* C20: every key of a row map is a tuple with one element per primary-key
\* column, holding the stored row's values of those columns in order; in a
\* table with a composite primary key, contains of a bare scalar is false.
C20_KeysHavePkShape ==
    /\ \A t \in TableNames :
           \A key \in DOMAIN _tables[t]._rows :
               LET row == _tables[t]._rows[key]
               IN  /\ Len(key) = Len(PkNames(t))
                   /\ \A j \in 1..Len(key) :
                          key[j] = row._columns[PkNames(t)[j]]._value
                   /\ SameOutcome(column_values(row, _tables[t]._pk),
                                  Return(key))
    /\ Called("__contains__") /\ Len(PkNames(ret.table)) > 1
           /\ ret.args[1].t # "tuple" =>
           ret.out.val = FALSE

\* contains of the bare scalar 1 was asked of the composite-key table while
\* it holds a row whose first key column is 1
C20_Witness ==
    /\ Called("__contains__") /\ ret.table = "items"
    /\ ret.args[1] = PyInt(1)
    /\ ret.out.val = FALSE
    /\ \E key \in DOMAIN _tables["items"]._rows : key[1] = PyInt(1)

-----------------------------------------------------------------------------
(* C21: add_row and find_rows in two threads *)

\* the cached index the reader is about to look into misses a stored row
ReaderSeesStaleIndex ==
    /\ threads.reader.pc = "lookup"
    /\ LET self == _tables[threads.reader.table]
           names == SpecNames(threads.reader.args[1])
       IN  /\ names \in DOMAIN self._indexes
           /\ \E row \in values(self) :
                  \A key \in DOMAIN self._indexes[names] :
                      row \notin self._indexes[names][key]

\* the reader's find_rows failed because the index it had built or found
\* was gone at the lookup
ReaderFoundIndexAbsent ==
    /\ threads.reader.pc = "done"
    /\ threads.reader.out.exc = "AssertionError"

ReaderMisled == ReaderSeesStaleIndex \/ ReaderFoundIndexAbsent

\* C21 as claimed: when every add_row runs as one indivisible block, the
\* reader never sees a stale index and never finds its index absent.
C21_AtomicAddRowIsEnough ==
    threads.discipline = "atomic" => ~ReaderMisled

\* C21 as amended: when add_row has exclusive access (no find_rows is in
\* progress while it runs), the reader never sees a stale index and never
\* finds its index absent.
C21_ExclusiveAddRowIsEnough ==
    threads.discipline = "exclusive" => ~ReaderMisled

\* under exclusive access the writer has inserted a row and the reader's
\* find_rows, run on that table since, has returned that row
C21_Witness ==
    /\ threads.discipline = "exclusive"
    /\ threads.writer.pc = "done" /\ Returned(threads.writer.out)
    /\ threads.reader.pc = "done" /\ Returned(threads.reader.out)
    /\ threads.reader.table = threads.writer.table
    /\ _DBRow(_tables[threads.writer.table]._pk, threads.writer.args[1])
           \in threads.reader.out.val
    /\ Cardinality(DOMAIN _tables[threads.writer.table]._rows) = 2

\* Reachability under no discipline, stated as its negation: TLC refutes
\* both under SpecThreads.  The reader is about to look into a stale index
\* (add_row cleared, find_rows built, add_row inserted) ...
NoDisciplineNeverStale ==
    ~(threads.discipline = "none" /\ ReaderSeesStaleIndex)

\* ... and the reader finds the index it built absent (find_rows built,
\* add_row cleared, find_rows looked up)
NoDisciplineNeverAbsent ==
    ~(threads.discipline = "none" /\ ReaderFoundIndexAbsent)

====
